---- MODULE Spec2Model ----
(***************************************************************************)
(* Model of 0x02-redis_basic/web.py: the WebCache class (a dictionary      *)
(* url -> {content, timestamp, count} guarded by one threading.Lock), the  *)
(* cache decorator's wrapper around get_page, and get_access_count.        *)
(* Threads call get_page, get_access_count and the WebCache methods; the   *)
(* clock (time.time()) advances between any two steps.                     *)
(***************************************************************************)
EXTENDS Integers, Sequences, FiniteSets, TLC

\* ---- bounds of the model ------------------------------------------------
NumThreads == 2
NumUrls == 2
NumContents == 2
MaxExpiration == 2
MaxTime == 3
MaxCalls == 3
LiveCalls == 2

Threads == 1..NumThreads
Urls == 1..NumUrls
Contents == 1..NumContents

VARIABLES
  cache,            \* self._cache: a function whose DOMAIN is the set of cached urls
  lock,             \* self._lock: 0 when free, else the thread holding it
  expiration_time,  \* self.expiration_time
  now,              \* the value time.time() returns
  pc,               \* position of each thread
  op,               \* the entry point each thread is executing
  url,              \* the url argument of the running call
  arg,              \* the content argument of set_cache_entry / the fetched content
  cached,           \* wrapper local `cached`: <<>> is None, <<e>> is the entry e (the
                    \* wrapper reads only e["content"], which no code changes in place)
  result,           \* what the call returned or raised
  calls,            \* number of calls started so far
  obs,              \* history: what the running call of each thread observed and did
  hits,             \* history: hits on the entry of a url since the put that wrote it
  lastPut,          \* history: content given to the most recent put of a url
  run               \* history: the sequential get_page run of a url since it was absent

vars == <<cache, lock, expiration_time, now, pc, op, url, arg, cached, result,
          calls, obs, hits, lastPut, run>>

None == <<>>
NoResult == [kind |-> "pending", val |-> 0]
NoObs == [outcome |-> "-", age |-> -1, seen |-> 0, fetches |-> 0, fetched |-> 0,
          puts |-> 0, over |-> "-", wrote |-> FALSE, afterFail |-> FALSE,
          last |-> FALSE, putAt |-> -1]
NewRun == [n |-> 0, f |-> 0, clean |-> TRUE, failed |-> FALSE]

\* ---- pure parts of WebCache ----------------------------------------------

IsExpired_ge(entry) == now - entry.timestamp >= expiration_time

IsExpired_late(entry) == now - entry.timestamp > expiration_time + 1

IsExpired_never(entry) == FALSE

\* line 39: time.time() - entry["timestamp"] > self.expiration_time
IsExpired(entry) == now - entry.timestamp > expiration_time

HitEntry_noinc(entry) == entry

HitEntry_twice(entry) == [entry EXCEPT !.count = @ + 2]

HitEntry_refresh(entry) == [entry EXCEPT !.count = @ + 1, !.timestamp = now]

\* line 43: entry["count"] += 1
HitEntry(entry) == [entry EXCEPT !.count = @ + 1]

NewEntry_keepcount(u, content) ==
  [content |-> content, timestamp |-> now,
   count |-> IF u \in DOMAIN cache THEN cache[u].count + 1 ELSE 1]

\* lines 54-58: the dictionary stored by set_cache_entry
NewEntry(u, content) == [content |-> content, timestamp |-> now, count |-> 1]

\* line 70: self._cache.get(url, {}).get("count", 0)
AccessCountOf(u) == IF u \in DOMAIN cache THEN cache[u].count ELSE 0

DelEntry_sweep(u) ==
  [k \in {x \in DOMAIN cache : x # u /\ now - cache[x].timestamp <= expiration_time}
     |-> cache[k]]

\* line 40: del self._cache[url]
DelEntry(u) == [k \in DOMAIN cache \ {u} |-> cache[k]]

PutEntry_ifabsent(u, e) ==
  IF u \in DOMAIN cache /\ now - cache[u].timestamp <= expiration_time THEN cache
  ELSE [k \in DOMAIN cache \cup {u} |-> IF k = u THEN e ELSE cache[k]]

\* line 54: self._cache[url] = ...
PutEntry(u, e) == [k \in DOMAIN cache \cup {u} |-> IF k = u THEN e ELSE cache[k]]

\* line 101: `if cached:` -- None is falsy, a non-empty dict is truthy
Truthy(c) == Len(c) > 0

LockFree_ignored == TRUE

\* lines 34, 53, 69: `with self._lock:` can be entered only while no thread holds the lock
LockFree == lock = 0

\* a thread is inside a call that can change the entry of u
Busy(t, u) == pc[t] \notin {"idle", "done"} /\ url[t] = u /\ op[t] # "get_access_count"

\* ---- calls ---------------------------------------------------------------

\* get_page(url): the wrapper starts with cache_manager.get_cache_entry(url)
CallGetPage(t, u) ==
  /\ pc[t] = "idle" /\ calls < MaxCalls
  /\ pc' = [pc EXCEPT ![t] = "gce_lock"]
  /\ op' = [op EXCEPT ![t] = "get_page"]
  /\ url' = [url EXCEPT ![t] = u]
  /\ calls' = calls + 1
  /\ run' = [run EXCEPT ![u] =
               IF \E o \in Threads \ {t} : Busy(o, u) THEN [@ EXCEPT !.clean = FALSE]
               ELSE IF u \notin DOMAIN cache THEN [NewRun EXCEPT !.failed = run[u].failed]
               ELSE @]
  /\ UNCHANGED <<cache, lock, expiration_time, now, arg, cached, result, obs,
                 hits, lastPut>>

\* a direct call of WebCache.get_cache_entry(url)
CallGetCacheEntry(t, u) ==
  /\ pc[t] = "idle" /\ calls < MaxCalls
  /\ pc' = [pc EXCEPT ![t] = "gce_lock"]
  /\ op' = [op EXCEPT ![t] = "get_cache_entry"]
  /\ url' = [url EXCEPT ![t] = u]
  /\ calls' = calls + 1
  /\ run' = [run EXCEPT ![u] = [@ EXCEPT !.clean = FALSE]]
  /\ UNCHANGED <<cache, lock, expiration_time, now, arg, cached, result, obs,
                 hits, lastPut>>

\* a direct call of WebCache.set_cache_entry(url, content)
CallSetCacheEntry(t, u, c) ==
  /\ pc[t] = "idle" /\ calls < MaxCalls
  /\ pc' = [pc EXCEPT ![t] = "sce_lock"]
  /\ op' = [op EXCEPT ![t] = "set_cache_entry"]
  /\ url' = [url EXCEPT ![t] = u]
  /\ arg' = [arg EXCEPT ![t] = c]
  /\ calls' = calls + 1
  /\ run' = [run EXCEPT ![u] = [@ EXCEPT !.clean = FALSE]]
  /\ UNCHANGED <<cache, lock, expiration_time, now, cached, result, obs,
                 hits, lastPut>>

\* get_access_count(url), module level, lines 131-140
CallGetAccessCount(t, u) ==
  /\ pc[t] = "idle" /\ calls < MaxCalls
  /\ pc' = [pc EXCEPT ![t] = "gac_lock"]
  /\ op' = [op EXCEPT ![t] = "get_access_count"]
  /\ url' = [url EXCEPT ![t] = u]
  /\ calls' = calls + 1
  /\ UNCHANGED <<cache, lock, expiration_time, now, arg, cached, result, obs,
                 hits, lastPut, run>>

\* ---- get_cache_entry ---------------------------------------------------------

\* lines 34-42: `with self._lock:` is entered when the lock is free, then the lookup
\* and the expiry test run; on a hit `entry` (with the count as read) is kept for line 43
GceBody(t) ==
  /\ pc[t] = "gce_lock" /\ LockFree
  /\ lock' = t
  /\ LET u == url[t] IN
     IF u \notin DOMAIN cache
     THEN /\ pc' = [pc EXCEPT ![t] = "gce_unlock"]
          /\ cached' = [cached EXCEPT ![t] = None]
          /\ obs' = [obs EXCEPT ![t] = [@ EXCEPT !.outcome = "absent", !.wrote = FALSE,
                                                  !.afterFail = run[u].failed]]
          /\ UNCHANGED <<cache, hits, lastPut, run>>
     ELSE LET entry == cache[u] IN
          IF IsExpired(entry)
          THEN /\ pc' = [pc EXCEPT ![t] = "gce_unlock"]
               /\ cache' = DelEntry(u)
               /\ cached' = [cached EXCEPT ![t] = None]
               /\ obs' = [obs EXCEPT ![t] = [@ EXCEPT !.outcome = "expired",
                                                       !.age = now - entry.timestamp,
                                                       !.seen = lastPut[u],
                                                       !.wrote = FALSE,
                                                       !.afterFail = run[u].failed]]
               /\ hits' = [hits EXCEPT ![u] = 0]
               /\ lastPut' = [lastPut EXCEPT ![u] = 0]
               /\ run' = [run EXCEPT ![u] = [@ EXCEPT !.clean = FALSE]]
          ELSE /\ pc' = [pc EXCEPT ![t] = "gce_inc"]
               /\ cached' = [cached EXCEPT ![t] = <<entry>>]
               /\ obs' = [obs EXCEPT ![t] = [@ EXCEPT !.outcome = "hit",
                                                       !.age = now - entry.timestamp,
                                                       !.seen = lastPut[u],
                                                       !.wrote = FALSE,
                                                       !.afterFail = run[u].failed]]
               /\ UNCHANGED <<cache, hits, lastPut, run>>
  /\ UNCHANGED <<expiration_time, now, op, url, arg, result, calls>>

\* line 43: entry["count"] += 1 stores the count read before, plus one, still holding the lock
GceInc(t) ==
  /\ pc[t] = "gce_inc"
  /\ pc' = [pc EXCEPT ![t] = "gce_unlock"]
  /\ LET u == url[t]
         entry == HitEntry(cached[t][1])
     IN /\ cache' = IF u \in DOMAIN cache THEN [cache EXCEPT ![u] = entry] ELSE cache
        /\ cached' = [cached EXCEPT ![t] = <<entry>>]
        /\ hits' = [hits EXCEPT ![u] = @ + 1]
  /\ UNCHANGED <<lock, expiration_time, now, op, url, arg, result, calls, obs,
                 lastPut, run>>

WrapperAfterGet_always(c) == "fetch"

WrapperAfterGet_singleflight(c) ==
  IF Truthy(c) THEN "done"
  ELSE IF \E o \in Threads : pc[o] \in {"fetch", "sce_lock", "sce_unlock"} THEN "gce_lock"
  ELSE "fetch"

\* lines 101-105 of the wrapper: where the call goes once get_cache_entry returned c
WrapperAfterGet(c) == IF Truthy(c) THEN "done" ELSE "fetch"

GceRelease_holds(t) ==
  /\ pc[t] = "gce_unlock" /\ lock = t
  /\ lock' = IF op[t] = "get_page" /\ ~Truthy(cached[t]) THEN t ELSE 0
  /\ IF op[t] = "get_page"
     THEN /\ pc' = [pc EXCEPT ![t] = WrapperAfterGet(cached[t])]
          /\ IF WrapperAfterGet(cached[t]) = "done"
             THEN /\ result' = [result EXCEPT ![t] =
                        IF Truthy(cached[t])
                        THEN [kind |-> "content", val |-> cached[t][1].content]
                        ELSE [kind |-> "content", val |-> 0]]
                  /\ run' = [run EXCEPT ![url[t]] = [@ EXCEPT !.n = @ + 1]]
             ELSE UNCHANGED <<result, run>>
     ELSE /\ pc' = [pc EXCEPT ![t] = "done"]
          /\ result' = [result EXCEPT ![t] =
                IF Truthy(cached[t])
                THEN [kind |-> "entry", val |-> cached[t][1].content]
                ELSE [kind |-> "None", val |-> 0]]
          /\ UNCHANGED run
  /\ UNCHANGED <<cache, expiration_time, now, op, url, arg, cached, calls, obs,
                 hits, lastPut>>

\* leaving `with self._lock:` of get_cache_entry and returning to the caller
GceRelease(t) ==
  /\ pc[t] = "gce_unlock" /\ lock = t
  /\ lock' = 0
  /\ IF op[t] = "get_page"
     THEN /\ pc' = [pc EXCEPT ![t] = WrapperAfterGet(cached[t])]
          /\ IF WrapperAfterGet(cached[t]) = "done"
             THEN /\ result' = [result EXCEPT ![t] =
                        IF Truthy(cached[t])
                        THEN [kind |-> "content", val |-> cached[t][1].content]
                        ELSE [kind |-> "content", val |-> 0]]
                  /\ run' = [run EXCEPT ![url[t]] = [@ EXCEPT !.n = @ + 1]]
             ELSE UNCHANGED <<result, run>>
     ELSE /\ pc' = [pc EXCEPT ![t] = "done"]
          /\ result' = [result EXCEPT ![t] =
                IF Truthy(cached[t])
                THEN [kind |-> "entry", val |-> cached[t][1].content]
                ELSE [kind |-> "None", val |-> 0]]
          /\ UNCHANGED run
  /\ UNCHANGED <<cache, expiration_time, now, op, url, arg, cached, calls, obs,
                 hits, lastPut>>

\* ---- the external fetch (get_page, lines 124-129) ------------------------------

\* requests.get succeeded: the wrapper goes on to set_cache_entry(url, content)
FetchOk(t, c) ==
  /\ pc[t] = "fetch"
  /\ pc' = [pc EXCEPT ![t] = "sce_lock"]
  /\ arg' = [arg EXCEPT ![t] = c]
  /\ obs' = [obs EXCEPT ![t] = [@ EXCEPT !.fetches = @ + 1, !.fetched = c]]
  /\ run' = [run EXCEPT ![url[t]] = [@ EXCEPT !.f = @ + 1]]
  /\ UNCHANGED <<cache, lock, expiration_time, now, op, url, cached, result, calls,
                 hits, lastPut>>

FetchFail_swallow(t) ==
  /\ pc[t] = "fetch"
  /\ pc' = [pc EXCEPT ![t] = "done"]
  /\ result' = [result EXCEPT ![t] = [kind |-> "content", val |-> 0]]
  /\ obs' = [obs EXCEPT ![t] = [@ EXCEPT !.fetches = @ + 1]]
  /\ run' = [run EXCEPT ![url[t]] = [@ EXCEPT !.f = @ + 1, !.clean = FALSE,
                                                !.failed = ~obs[t].wrote]]
  /\ UNCHANGED <<cache, lock, expiration_time, now, op, url, arg, cached, calls,
                 hits, lastPut>>

FetchFail_caches(t) ==
  /\ pc[t] = "fetch"
  /\ pc' = [pc EXCEPT ![t] = "done"]
  /\ result' = [result EXCEPT ![t] = [kind |-> "raise", val |-> 0]]
  /\ obs' = [obs EXCEPT ![t] = [@ EXCEPT !.fetches = @ + 1]]
  /\ run' = [run EXCEPT ![url[t]] = [@ EXCEPT !.f = @ + 1, !.clean = FALSE,
                                                !.failed = ~obs[t].wrote]]
  /\ cache' = [k \in DOMAIN cache \cup {url[t]} |->
                IF k = url[t] THEN [content |-> 0, timestamp |-> now, count |-> 1]
                ELSE cache[k]]
  /\ UNCHANGED <<lock, expiration_time, now, op, url, arg, cached, calls,
                 hits, lastPut>>

\* requests.get or raise_for_status raised: RequestException leaves the wrapper
FetchFail(t) ==
  /\ pc[t] = "fetch"
  /\ pc' = [pc EXCEPT ![t] = "done"]
  /\ result' = [result EXCEPT ![t] = [kind |-> "raise", val |-> 0]]
  /\ obs' = [obs EXCEPT ![t] = [@ EXCEPT !.fetches = @ + 1]]
  /\ run' = [run EXCEPT ![url[t]] = [@ EXCEPT !.f = @ + 1, !.clean = FALSE,
                                                !.failed = ~obs[t].wrote]]
  /\ UNCHANGED <<cache, lock, expiration_time, now, op, url, arg, cached, calls,
                 hits, lastPut>>

\* ---- set_cache_entry -----------------------------------------------------------

\* lines 53-58: `with self._lock:` is entered when the lock is free, then the body runs
SceBody(t) ==
  /\ pc[t] = "sce_lock" /\ LockFree
  /\ lock' = t
  /\ pc' = [pc EXCEPT ![t] = "sce_unlock"]
  /\ LET u == url[t] IN
     /\ cache' = PutEntry(u, NewEntry(u, arg[t]))
     /\ hits' = [hits EXCEPT ![u] = 0]
     /\ lastPut' = [lastPut EXCEPT ![u] = arg[t]]
     /\ obs' = [o \in Threads |->
           IF o = t
           THEN [obs[o] EXCEPT !.puts = @ + 1, !.last = TRUE, !.putAt = now,
                               !.over = IF u \notin DOMAIN cache THEN "absent"
                                        ELSE IF now - cache[u].timestamp > expiration_time
                                        THEN "expired"
                                        ELSE IF cache[u].count > 1 THEN "live_counted"
                                        ELSE "live"]
           ELSE IF pc[o] # "idle" /\ url[o] = u
           THEN [obs[o] EXCEPT !.wrote = TRUE, !.last = FALSE]
           ELSE obs[o]]
     /\ run' = [run EXCEPT ![u] = [@ EXCEPT !.failed = FALSE]]
  /\ UNCHANGED <<expiration_time, now, op, url, arg, cached, result, calls>>

\* leaving `with self._lock:` of set_cache_entry; the wrapper returns content (line 107)
SceRelease(t) ==
  /\ pc[t] = "sce_unlock" /\ lock = t
  /\ lock' = 0
  /\ pc' = [pc EXCEPT ![t] = "done"]
  /\ IF op[t] = "get_page"
     THEN /\ result' = [result EXCEPT ![t] = [kind |-> "content", val |-> arg[t]]]
          /\ run' = [run EXCEPT ![url[t]] = [@ EXCEPT !.n = @ + 1]]
     ELSE /\ result' = [result EXCEPT ![t] = [kind |-> "None", val |-> 0]]
          /\ UNCHANGED run
  /\ UNCHANGED <<cache, expiration_time, now, op, url, arg, cached, calls, obs,
                 hits, lastPut>>

\* ---- get_access_count ----------------------------------------------------------

GacBody_evicts(t) ==
  /\ pc[t] = "gac_lock" /\ LockFree
  /\ lock' = t
  /\ pc' = [pc EXCEPT ![t] = "gac_unlock"]
  /\ LET u == url[t]
         stale == u \in DOMAIN cache /\ now - cache[u].timestamp > expiration_time
     IN /\ result' = [result EXCEPT ![t] =
              [kind |-> "count", val |-> IF stale THEN 0 ELSE AccessCountOf(u)]]
        /\ cache' = IF stale THEN [k \in DOMAIN cache \ {u} |-> cache[k]] ELSE cache
        /\ obs' = [obs EXCEPT ![t] = [@ EXCEPT
              !.age = IF u \in DOMAIN cache THEN now - cache[u].timestamp ELSE -1]]
  /\ UNCHANGED <<expiration_time, now, op, url, arg, cached, calls,
                 hits, lastPut, run>>

\* lines 69-70: `with self._lock:` is entered when the lock is free, then the body runs
GacBody(t) ==
  /\ pc[t] = "gac_lock" /\ LockFree
  /\ lock' = t
  /\ pc' = [pc EXCEPT ![t] = "gac_unlock"]
  /\ result' = [result EXCEPT ![t] = [kind |-> "count", val |-> AccessCountOf(url[t])]]
  /\ obs' = [obs EXCEPT ![t] = [@ EXCEPT
        !.age = IF url[t] \in DOMAIN cache THEN now - cache[url[t]].timestamp ELSE -1]]
  /\ UNCHANGED <<cache, expiration_time, now, op, url, arg, cached, calls,
                 hits, lastPut, run>>

\* leaving `with self._lock:` of get_access_count
GacRelease(t) ==
  /\ pc[t] = "gac_unlock" /\ lock = t
  /\ lock' = 0
  /\ pc' = [pc EXCEPT ![t] = "done"]
  /\ UNCHANGED <<cache, expiration_time, now, op, url, arg, cached, result, calls,
                 obs, hits, lastPut, run>>

\* ---- the caller takes the result; the thread is free for its next call ----------
Return(t) ==
  /\ pc[t] = "done"
  /\ pc' = [pc EXCEPT ![t] = "idle"]
  /\ op' = [op EXCEPT ![t] = "-"]
  /\ url' = [url EXCEPT ![t] = 0]
  /\ arg' = [arg EXCEPT ![t] = 0]
  /\ cached' = [cached EXCEPT ![t] = None]
  /\ result' = [result EXCEPT ![t] = NoResult]
  /\ obs' = [obs EXCEPT ![t] = NoObs]
  /\ UNCHANGED <<cache, lock, expiration_time, now, calls, hits, lastPut, run>>

\* ---- time.time() advances --------------------------------------------------------
Tick ==
  /\ now < MaxTime
  /\ now' = now + 1
  /\ UNCHANGED <<cache, lock, expiration_time, pc, op, url, arg, cached, result,
                 calls, obs, hits, lastPut, run>>

\* ---- WebCache.__init__ (lines 15-23) and the idle threads ---------------------------
Init ==
  /\ cache = <<>>
  /\ lock = 0
  /\ expiration_time \in 1..MaxExpiration
  /\ now = 0
  /\ pc = [t \in Threads |-> "idle"]
  /\ op = [t \in Threads |-> "-"]
  /\ url = [t \in Threads |-> 0]
  /\ arg = [t \in Threads |-> 0]
  /\ cached = [t \in Threads |-> None]
  /\ result = [t \in Threads |-> NoResult]
  /\ calls = 0
  /\ obs = [t \in Threads |-> NoObs]
  /\ hits = [u \in Urls |-> 0]
  /\ lastPut = [u \in Urls |-> 0]
  /\ run = [u \in Urls |-> NewRun]

Next ==
  \/ \E t \in Threads, u \in Urls : CallGetPage(t, u)
  \/ \E t \in Threads, u \in Urls : CallGetCacheEntry(t, u)
  \/ \E t \in Threads, u \in Urls, c \in Contents : CallSetCacheEntry(t, u, c)
  \/ \E t \in Threads, u \in Urls : CallGetAccessCount(t, u)
  \/ \E t \in Threads : GceBody(t)
  \/ \E t \in Threads : GceInc(t)
  \/ \E t \in Threads : GceRelease(t)
  \/ \E t \in Threads, c \in Contents : FetchOk(t, c)
  \/ \E t \in Threads : FetchFail(t)
  \/ \E t \in Threads : SceBody(t)
  \/ \E t \in Threads : SceRelease(t)
  \/ \E t \in Threads : GacBody(t)
  \/ \E t \in Threads : GacRelease(t)
  \/ \E t \in Threads : Return(t)
  \/ Tick

Spec == Init /\ [][Next]_vars

\* ---- properties ---------------------------------------------------------------------

\* a get_page call of u that has not returned to its caller yet
InGetPage(t, u) == op[t] = "get_page" /\ url[t] = u /\ pc[t] \notin {"idle", "done"}

Reads == {"get_page", "get_cache_entry"}

\* C1: get_access_count returns a positive count only for an entry that
\* get_cache_entry would still serve at that instant (age <= expiration_time);
\* for an absent or expired entry it returns 0.
C1_AccessCountZeroUnlessLive ==
  \A t \in Threads :
    (op[t] = "get_access_count" /\ result[t].kind = "count" /\ result[t].val > 0)
      => (obs[t].age >= 0 /\ obs[t].age <= expiration_time)

\* C2: a get_page call that missed and whose fetch raised has done no
\* set_cache_entry; when no other thread wrote the url since the miss, the url
\* is not in the mapping and its access count is 0.
C2_FailedFetchNoPut ==
  \A t \in Threads :
    (pc[t] = "done" /\ result[t].kind = "raise")
      => /\ obs[t].puts = 0
         /\ obs[t].outcome \in {"absent", "expired"}
         /\ ~obs[t].wrote => (url[t] \notin DOMAIN cache /\ AccessCountOf(url[t]) = 0)

C2_Witness ==
  \E t \in Threads :
    /\ pc[t] = "done" /\ result[t].kind = "raise"
    /\ obs[t].outcome = "expired" /\ ~obs[t].wrote

\* C3 as claimed: a get_cache_entry at exactly timestamp + expiration_time is a miss.
C3_BoundaryIsMiss ==
  \A t \in Threads :
    (op[t] \in Reads /\ obs[t].age = expiration_time) => obs[t].outcome # "hit"

\* C3 amended: a get_cache_entry at exactly timestamp + expiration_time is still
\* a hit; the entry is expired only when its age is greater than expiration_time.
C3_BoundaryIsHit ==
  \A t \in Threads :
    (op[t] \in Reads /\ obs[t].age = expiration_time)
      => (obs[t].outcome = "hit" /\ (pc[t] = "gce_unlock" => Truthy(cached[t])))

C3_Witness ==
  \E t \in Threads :
    op[t] \in Reads /\ obs[t].age = expiration_time /\ obs[t].outcome = "hit"

\* C4: a get_cache_entry strictly before timestamp + expiration_time is a hit
\* that yields the stored content, one strictly after it is a miss, and no call
\* returns content taken from an entry older than expiration_time.
C4_ExpiryWindow ==
  \A t \in Threads :
    (op[t] \in Reads /\ obs[t].age >= 0)
      => /\ obs[t].age < expiration_time
              => /\ obs[t].outcome = "hit"
                 /\ Truthy(cached[t]) /\ cached[t][1].content = obs[t].seen
         /\ obs[t].age > expiration_time
              => (obs[t].outcome = "expired" /\ cached[t] = None)
         /\ (result[t].kind = "entry" \/ (result[t].kind = "content" /\ obs[t].fetches = 0))
              => (obs[t].age <= expiration_time /\ result[t].val = obs[t].seen)

C4_Witness ==
  \E t1, t2 \in Threads :
    /\ op[t1] \in Reads /\ obs[t1].age >= 0 /\ obs[t1].age < expiration_time
    /\ obs[t1].outcome = "hit" /\ pc[t1] = "done"
    /\ op[t2] \in Reads /\ obs[t2].age > expiration_time /\ obs[t2].outcome = "expired"

\* C5: a get_cache_entry on a present entry no older than expiration_time
\* returns the content of the most recent put and raises the count by exactly
\* 1, leaving it at 1 + the hits since that put; get_access_count then returns
\* that number.
C5_HitReturnsAndCounts ==
  [][\A t \in Threads :
       /\ ( /\ pc[t] = "gce_lock" /\ pc'[t] # "gce_lock"
            /\ url[t] \in DOMAIN cache
            /\ now - cache[url[t]].timestamp <= expiration_time )
          => /\ pc'[t] = "gce_inc"
             /\ Truthy(cached'[t])
             /\ cached'[t][1].content = lastPut[url[t]]
       /\ ( pc[t] = "gce_inc" /\ pc'[t] # "gce_inc" )
          => /\ Truthy(cached'[t])
             /\ cached'[t][1].content = lastPut[url[t]]
             /\ url[t] \in DOMAIN cache /\ url[t] \in DOMAIN cache'
             /\ cache'[url[t]].count = cache[url[t]].count + 1
             /\ cache'[url[t]].count = hits'[url[t]] + 1
             /\ hits'[url[t]] = hits[url[t]] + 1
       /\ ( pc[t] = "gac_lock" /\ pc'[t] = "gac_unlock" /\ url[t] \in DOMAIN cache )
          => result'[t] = [kind |-> "count", val |-> hits[url[t]] + 1]
    ]_vars

C5_Witness ==
  \E t \in Threads :
    /\ op[t] = "get_access_count" /\ pc[t] = "done"
    /\ url[t] \in DOMAIN cache /\ hits[url[t]] >= 1
    /\ result[t].val = hits[url[t]] + 1

\* C6: set_cache_entry(url, content) leaves the entry of url equal to
\* {content, timestamp = now, count = 1} whatever was there before, and the
\* access count of url right after it is 1.
C6_PutReplaces ==
  [][\A t \in Threads :
       (pc[t] = "sce_lock" /\ pc'[t] = "sce_unlock")
         => /\ url[t] \in DOMAIN cache'
            /\ cache'[url[t]] = [content |-> arg[t], timestamp |-> now, count |-> 1]
            /\ DOMAIN cache' = DOMAIN cache \cup {url[t]}
    ]_vars

C6_Witness ==
  \E t \in Threads :
    /\ pc[t] = "sce_unlock" /\ obs[t].over = "live_counted"
    /\ cache[url[t]].count = 1 /\ cache[url[t]].content = arg[t]

\* C7: a get_page call whose get_cache_entry was a hit never reaches the
\* fetch, does no set_cache_entry, and returns the content of the entry it hit.
C7_HitSkipsFetch ==
  \A t \in Threads :
    (op[t] = "get_page" /\ obs[t].outcome = "hit")
      => /\ pc[t] \in {"gce_inc", "gce_unlock", "done"}
         /\ obs[t].fetches = 0 /\ obs[t].puts = 0
         /\ pc[t] = "done" => result[t] = [kind |-> "content", val |-> obs[t].seen]

C7_Witness ==
  \E t \in Threads :
    op[t] = "get_page" /\ obs[t].outcome = "hit" /\ pc[t] = "done" /\ result[t].val > 0

\* C8: a get_page call that finds an entry older than expiration_time goes to
\* the fetch; when the fetch succeeds it stores the fetched content with count 1
\* and returns that content.
C8_RefetchAfterExpiry ==
  \A t \in Threads :
    (op[t] = "get_page" /\ obs[t].age > expiration_time)
      => /\ pc[t] \in {"gce_unlock", "fetch", "sce_lock", "sce_unlock", "done"}
         /\ pc[t] \in {"sce_lock", "sce_unlock", "done"} => obs[t].fetches = 1
         /\ pc[t] = "sce_unlock"
              => /\ url[t] \in DOMAIN cache
                 /\ cache[url[t]].content = obs[t].fetched
                 /\ cache[url[t]].count = 1
                 /\ AccessCountOf(url[t]) = 1
         /\ (pc[t] = "done" /\ result[t].kind # "raise")
              => (result[t] = [kind |-> "content", val |-> obs[t].fetched] /\ obs[t].puts = 1)

C8_Witness ==
  \E t \in Threads :
    /\ op[t] = "get_page" /\ obs[t].age > expiration_time
    /\ pc[t] = "sce_unlock" /\ obs[t].fetched # obs[t].seen
    /\ cache[url[t]].content = obs[t].fetched

\* C9: no step of a get_access_count call changes the mapping.
C9_AccessCountPure ==
  [][\A t \in Threads :
       (op[t] = "get_access_count" /\ pc'[t] # pc[t]) => cache' = cache
    ]_vars

C9_Witness ==
  \E t \in Threads :
    /\ op[t] = "get_access_count" /\ pc[t] = "done"
    /\ obs[t].age > expiration_time /\ url[t] \in DOMAIN cache

\* C10: after n >= 1 get_page calls of a url that ran one after the other,
\* starting with the url absent, all successful and none finding the entry
\* expired, the fetch was invoked exactly once and the access count is n.
C10_SequentialRunCounts ==
  \A u \in Urls :
    (run[u].clean /\ run[u].n >= 1 /\ \A t \in Threads : ~InGetPage(t, u))
      => (run[u].f = 1 /\ AccessCountOf(u) = run[u].n)

C10_Witness ==
  \E u \in Urls :
    /\ run[u].clean /\ run[u].n >= 3 /\ \A t \in Threads : ~InGetPage(t, u)
    /\ AccessCountOf(u) = run[u].n

Misses == {"absent", "expired"}

\* C11: a get_page call that missed invokes the fetch exactly once; when the
\* fetch raised the call ends by raising and never returns a content; and a
\* get_page of a url whose last fetch failed, with no set_cache_entry of that
\* url since, misses again and so goes to the fetch again.
C11_FailurePropagatesNoRetry ==
  \A t \in Threads :
    /\ (op[t] = "get_page" /\ obs[t].outcome \in Misses)
         => /\ pc[t] \in {"gce_unlock", "fetch", "sce_lock", "sce_unlock", "done"}
            /\ pc[t] \in {"gce_unlock", "fetch"} => obs[t].fetches = 0
            /\ pc[t] \in {"sce_lock", "sce_unlock", "done"} => obs[t].fetches = 1
            /\ (pc[t] = "done" /\ obs[t].fetched = 0)
                 => (result[t].kind = "raise" /\ obs[t].puts = 0)
            /\ (pc[t] = "done" /\ obs[t].fetched # 0)
                 => result[t] = [kind |-> "content", val |-> obs[t].fetched]
    /\ (op[t] = "get_page" /\ obs[t].afterFail) => obs[t].outcome \in Misses

C11_Witness ==
  \E t \in Threads :
    /\ op[t] = "get_page" /\ obs[t].afterFail
    /\ pc[t] = "done" /\ obs[t].fetches = 1 /\ result[t].kind = "raise"

\* positions inside a `with self._lock:` block, and positions waiting to enter one
InLock == {"gce_inc", "gce_unlock", "sce_unlock", "gac_unlock"}
AtLock == {"gce_lock", "sce_lock", "gac_lock"}

OneInLock ==
  /\ \A t1, t2 \in Threads : (pc[t1] \in InLock /\ pc[t2] \in InLock) => t1 = t2
  /\ \A t \in Threads : pc[t] \in InLock <=> lock = t

\* C12: at most one thread is inside the locked block of get_cache_entry,
\* set_cache_entry or get_access_count, that thread is the holder of the lock,
\* and while it is inside no other thread's step changes the mapping.
C12_MutualExclusion ==
  [][ /\ OneInLock'
      /\ \A t \in Threads :
           (pc[t] \in InLock /\ pc'[t] = pc[t]) => cache' = cache
    ]_vars

C12_Witness ==
  \E t1, t2 \in Threads :
    /\ pc[t1] = "gce_inc" /\ pc[t2] \in AtLock /\ url[t1] = url[t2] /\ lock = t1

\* C13: a thread that is in the fetch of get_page does not hold the lock, and
\* whenever the lock is held during a fetch it is held by another thread that
\* is inside a locked block of a cache operation.
C13_FetchOutsideLock ==
  \A t \in Threads :
    pc[t] = "fetch"
      => /\ lock # t
         /\ lock # 0 => \E o \in Threads \ {t} : lock = o /\ pc[o] \in InLock

C13_Witness ==
  \E t, o \in Threads :
    /\ pc[t] = "fetch" /\ pc[o] \in {"gce_inc", "sce_unlock", "gac_unlock"}
    /\ lock = o /\ url[o] = url[t]

\* another get_page call of the same url has missed and is fetching or about to store
FetchInFlight(t) ==
  \E o \in Threads \ {t} :
    op[o] = "get_page" /\ url[o] = url[t] /\ pc[o] \in {"fetch", "sce_lock"}

\* C14: nothing de-duplicates concurrent misses: a get_page call that missed
\* while another call of the same url is already fetching goes to its own
\* fetch; so two calls of one url can both miss and both fetch at the same time.
C14_NoSingleFlight ==
  [][\A t \in Threads :
       ( /\ op[t] = "get_page" /\ pc[t] = "gce_unlock" /\ pc'[t] # pc[t]
         /\ obs[t].outcome \in Misses /\ FetchInFlight(t) )
         => pc'[t] = "fetch"
    ]_vars

C14_Witness ==
  \E t1, t2 \in Threads :
    /\ t1 # t2 /\ url[t1] = url[t2] /\ now = 0
    /\ op[t1] = "get_page" /\ obs[t1].outcome \in Misses /\ obs[t1].fetches = 1
    /\ op[t2] = "get_page" /\ obs[t2].outcome \in Misses /\ obs[t2].fetches = 1
    /\ pc[t1] = "sce_lock" /\ pc[t2] = "sce_lock"

\* C15: the entry of a url is the one written by the set_cache_entry that ran
\* last under the lock: it has that call's content and timestamp, and its count
\* is 1 plus the hits since that put, whatever earlier puts and hits there were.
C15_LastWriteWins ==
  \A t \in Threads :
    (obs[t].last /\ url[t] \in DOMAIN cache)
      => /\ cache[url[t]].content = arg[t]
         /\ cache[url[t]].timestamp = obs[t].putAt
         /\ cache[url[t]].count = 1 + hits[url[t]]
         /\ \A o \in Threads \ {t} : url[o] = url[t] => ~obs[o].last

C15_Witness ==
  \E t1, t2 \in Threads :
    /\ url[t1] = url[t2] /\ op[t1] = "get_page" /\ op[t2] = "get_page"
    /\ pc[t1] = "done" /\ pc[t2] = "done"
    /\ obs[t1].puts = 1 /\ ~obs[t1].last /\ obs[t2].puts = 1 /\ obs[t2].last
    /\ arg[t1] # arg[t2] /\ obs[t1].putAt < obs[t2].putAt
    /\ url[t2] \in DOMAIN cache /\ cache[url[t2]].content = arg[t2]

\* the step is the set_cache_entry body of thread t, for url u
PutStep(t, u) == pc[t] = "sce_lock" /\ pc'[t] = "sce_unlock" /\ url[t] = u

\* the entry of u is new or rewritten by the step
Written(u) ==
  /\ u \in DOMAIN cache'
  /\ \/ u \notin DOMAIN cache
     \/ cache'[u].content # cache[u].content
     \/ cache'[u].timestamp # cache[u].timestamp
     \/ cache'[u].count < cache[u].count

\* C16: an entry appears or is rewritten only in the set_cache_entry body of a
\* call for that url; when that call is a get_page, it is one that missed and
\* then fetched successfully, and the stored content is what the fetch returned.
C16_EntryOnlyFromMissAndFetch ==
  [][ /\ \A u \in Urls : Written(u) => \E t \in Threads : PutStep(t, u)
      /\ \A t \in Threads :
           (op[t] = "get_page" /\ pc[t] = "sce_lock" /\ pc'[t] # pc[t])
             => /\ obs[t].outcome \in Misses
                /\ obs[t].fetches = 1 /\ obs[t].fetched \in Contents
                /\ url[t] \in DOMAIN cache'
                /\ cache'[url[t]].content = obs[t].fetched
    ]_vars

C16_Witness ==
  \E t \in Threads :
    /\ op[t] = "get_page" /\ pc[t] = "sce_unlock" /\ obs[t].outcome = "expired"
    /\ obs[t].fetched # obs[t].seen /\ cache[url[t]].content = obs[t].fetched

\* the url a step of thread t works on
KeyOf(t) == IF pc[t] = "idle" THEN url'[t] ELSE url[t]

\* C17: a url leaves the mapping only in a get_cache_entry of that url that
\* finds its entry older than expiration_time, which removes that url alone;
\* a step of a call for url K leaves the entry of every other url as it is;
\* the passage of time and get_access_count remove nothing.
C17_LazyPerKeyEviction ==
  [][ /\ \A u \in DOMAIN cache :
           u \notin DOMAIN cache'
             => /\ \E t \in Threads :
                     /\ pc[t] = "gce_lock" /\ pc'[t] = "gce_unlock" /\ url[t] = u
                     /\ op[t] \in Reads
                /\ now - cache[u].timestamp > expiration_time
                /\ DOMAIN cache' = DOMAIN cache \ {u}
      /\ \A t \in Threads :
           pc'[t] # pc[t]
             => \A u \in Urls \ {KeyOf(t)} :
                  /\ u \in DOMAIN cache <=> u \in DOMAIN cache'
                  /\ u \in DOMAIN cache => cache'[u] = cache[u]
      /\ now' # now => cache' = cache
      /\ \A t \in Threads :
           (op[t] = "get_access_count" /\ pc'[t] # pc[t]) => DOMAIN cache' = DOMAIN cache
    ]_vars

C17_Witness ==
  \E t \in Threads, u \in Urls :
    /\ obs[t].outcome = "expired" /\ pc[t] = "gce_unlock"
    /\ url[t] \notin DOMAIN cache /\ u # url[t]
    /\ u \in DOMAIN cache /\ now - cache[u].timestamp > expiration_time

\* C18: a hit changes the count of its entry and nothing else; the content and
\* the timestamp of an entry change only when a set_cache_entry rewrites it, so
\* the age that decides expiry is always counted from the put, whatever the hits.
C18_HitKeepsContentAndTimestamp ==
  [][ /\ \A u \in DOMAIN cache \cap DOMAIN cache' :
           (~\E t \in Threads : PutStep(t, u))
             => /\ cache'[u].content = cache[u].content
                /\ cache'[u].timestamp = cache[u].timestamp
      /\ \A t \in Threads :
           (pc[t] = "gce_inc" /\ pc'[t] # pc[t])
             => /\ url[t] \in DOMAIN cache /\ url[t] \in DOMAIN cache'
                /\ cache'[url[t]] = [cache[url[t]] EXCEPT !.count = @ + 1]
                /\ cached'[t] = <<cache'[url[t]]>>
    ]_vars

\* a hit at age >= 1 did not keep the entry from expiring afterwards
C18_Witness ==
  \E t1, t2 \in Threads :
    /\ url[t1] = url[t2]
    /\ obs[t1].outcome = "hit" /\ obs[t1].age >= 1 /\ pc[t1] = "done"
    /\ obs[t2].outcome = "expired" /\ obs[t2].age = expiration_time + 1

\* C19: every entry in the mapping has a count of 1 plus the number of hits
\* completed on its url since the put that wrote it, so at least 1; no
\* increment is lost, whatever the interleaving of the threads.
C19_CountIsOnePlusHits ==
  \A u \in DOMAIN cache :
    /\ cache[u].count = 1 + hits[u]
    /\ cache[u].count >= 1
    /\ cache[u].content = lastPut[u]

C19_Witness ==
  \E t1, t2 \in Threads :
    /\ t1 # t2 /\ url[t1] = url[t2] /\ url[t1] \in DOMAIN cache
    /\ obs[t1].outcome = "hit" /\ pc[t1] \in {"gce_unlock", "done"}
    /\ obs[t2].outcome = "hit" /\ pc[t2] = "gce_unlock"
    /\ obs[t1].age = obs[t2].age
    /\ hits[url[t1]] = 2 /\ cache[url[t1]].count = 3

\* ---- progress ------------------------------------------------------------------------
\* Fair scheduling: a thread inside a locked block goes on (weak fairness); a
\* thread waiting at `with self._lock:` that finds the lock free again and again
\* gets it (strong fairness); every fetch returns or raises.
Fairness ==
  \A t \in Threads :
    /\ SF_vars(GceBody(t)) /\ SF_vars(SceBody(t)) /\ SF_vars(GacBody(t))
    /\ WF_vars(GceInc(t)) /\ WF_vars(GceRelease(t))
    /\ WF_vars(SceRelease(t)) /\ WF_vars(GacRelease(t))
    /\ WF_vars((\E c \in Contents : FetchOk(t, c)) \/ FetchFail(t))

\* the program with at most LiveCalls calls started, under fair scheduling
LiveNext == Next /\ calls' <= LiveCalls

FairSpec == Init /\ [][LiveNext]_vars /\ Fairness

\* the lock is held only by a thread that is inside a locked block
HeldOnlyInside ==
  \A t \in Threads : lock = t => pc[t] \in InLock

\* C20: the lock is never left held by a thread that is outside the locked
\* blocks, and under fair scheduling, with fetches that return or raise, every
\* call that was started completes.
C20_EveryCallCompletes ==
  /\ []HeldOnlyInside
  /\ \A t \in Threads : (pc[t] # "idle") ~> (pc[t] = "done")

C20_Witness ==
  \E t1, t2 \in Threads :
    /\ pc[t1] = "done" /\ op[t1] = "get_page" /\ obs[t1].puts = 1
    /\ pc[t2] = "done" /\ url[t2] = url[t1] /\ obs[t2].wrote

====
